---- MODULE Spec2Model ----
(***************************************************************************)
(* The customer reconciliation pass of the HubSpot dashboard               *)
(* (utils/db_service.py, pages/customers/view.py, app.py).                 *)
(*                                                                         *)
(* The mirror table customer_entity lives in MySQL.  pymysql connects with *)
(* autocommit off, so the statements of one sync_customers_to_db call form *)
(* one InnoDB transaction (REPEATABLE READ): plain SELECTs read the        *)
(* snapshot taken by the first SELECT plus the transaction's own writes,   *)
(* DELETE and INSERT act on the latest committed rows and wait for row     *)
(* locks, and nothing is visible to others before conn.commit().           *)
(*                                                                         *)
(* hubspot ids are strings in the HubSpot JSON, so str(row['ID']) returns  *)
(* its argument; ids are the numbers 1..NumIds here.  The five contact     *)
(* columns are written by one INSERT from one record and never read back   *)
(* separately, so they are one value, "fields".  The columns id,           *)
(* created_at and updated_at are set by the store and read by no code.     *)
(* The rows of the table are kept per hubspot id, as the sequence of the   *)
(* fields of the rows with that id, so that two rows with one id can be    *)
(* told from one.                                                          *)
(***************************************************************************)
EXTENDS Integers, Sequences, FiniteSets, TLC

VARIABLES
    table,        \* committed rows of customer_entity
    tableExists,  \* customer_entity has been created
    remote,       \* contacts held by the remote directory (HubSpot)
    configured,   \* MYSQL_DATABASE and MYSQL_USER are both set
    faulty,       \* the store and the network can fail (connections, statements)
    contact,      \* a contact of the directory's JSON answer, as HubSpot sent it
    customer,     \* the record that fetch_customers built from the contact
    inserted,     \* the values that the INSERT of the pass binds for the record
    pending_changes,   \* git_details.py: the handler's flag
    last_commit_time,  \* git_details.py: the time of the latest schedule_commit
    now,               \* git_details.py: time.time(), in seconds
    wpc,               \* git_details.py: position of the observer thread
    mpc,               \* git_details.py: position of the main loop
    setAt,             \* history: when pending_changes was last set by an event
    owed,              \* history: kinds of the events delivered since the latest
                       \* auto_commit_and_push
    events,            \* history: number of events delivered
    pc,           \* per caller: position inside sync_customers_to_db
    df,           \* per caller: the customers_df argument (kept after a clean call)
    conn,         \* per caller: "closed", "open", "lost", or "refused" (no connection)
    snap,         \* per caller: rows of the transaction's read view
    wrote,        \* per caller: hubspot ids whose rows the open transaction changed
    mine,         \* per caller: the open transaction's rows for those ids
    todel,        \* per caller: ids_to_delete not yet iterated, in iteration order
    idx,          \* per caller: position of the iterrows() loop
    cnt,          \* per caller: new_count, skipped_count, deleted_count, error_count
    ret,          \* per caller: the value returned by the latest call
    log,          \* per caller: contexts written by log_error during the call
    vpc,          \* per session: position in the page script of view.py
    db_status,    \* per session: db_status of the page script
    fetched,      \* per session: what the GET of this page load returned
    page,         \* per session: the script that is running, "app" or "view"
    ops,          \* per session: what this page load did to the store, whether
                  \* its status check missed the table, whether its init_db() failed
    result,       \* per session: result of the CRM write of the open dialog
    pre,          \* history: committed rows when the call started
    fails,        \* history: connects, statements and commits that failed in the call
    okDel,        \* history: ids whose DELETE statement succeeded in the call
    okIns,        \* history: ids whose INSERT statement succeeded in the call
    dupIds,       \* history: ids whose INSERT raised IntegrityError in the call
    prev,         \* history: how the caller's previous call ended
    rerun         \* history: the call repeats a clean previous call's argument

dbVars    == <<table, tableExists>>
parseVars == <<contact, customer, inserted>>
watchVars == <<pending_changes, last_commit_time, now, wpc, mpc, setAt, owed,
               events>>
envVars   == <<remote, configured, faulty, contact, customer, inserted,
               pending_changes, last_commit_time, now, wpc, mpc, setAt, owed,
               events>>
txVars    == <<conn, snap, wrote, mine>>
loopVars  == <<todel, idx, cnt>>
viewVars  == <<vpc, db_status, fetched, page, ops, result>>
histVars  == <<pre, fails, okDel, okIns, dupIds, prev, rerun>>
vars == <<table, tableExists, remote, configured, faulty, contact, customer,
          inserted, pending_changes, last_commit_time, now, wpc, mpc, setAt,
          owed, events, pc, df, conn, snap, wrote,
          mine, todel, idx, cnt, ret, log, vpc, db_status, fetched, page, ops,
          result,
          pre, fails, okDel, okIns, dupIds, prev, rerun>>

----------------------------------------------------------------------------
(* Bounds *)

MaxLen    == 2      \* longest listing
NumIds    == 3      \* number of distinct hubspot ids
MaxEvents == 2      \* file events delivered to the watch
MaxTime   == 12     \* seconds of the watch that are modelled

Ids       == 1..NumIds
FieldVals == {"a", "b"}
Procs     == {1, 2}

Records   == [ID : Ids, Fields : FieldVals]
Listings  == UNION {[1..n -> Records] : n \in 0..MaxLen}

\* A customers_df argument: Python None, or a DataFrame with the rows of a listing.
NoneDf    == [isNone |-> TRUE, rows |-> <<>>]
DataFrame(l) == [isNone |-> FALSE, rows |-> l]
Args      == {NoneDf} \cup {DataFrame(l) : l \in Listings}

NoRows    == [h \in Ids |-> <<>>]

\* a listing with at least one record
NonEmptyListing(a) == ~a.isNone /\ a.rows # <<>>

\* no GET has returned in this page load
NoFetch   == [status |-> "none", rows |-> <<>>, class |-> "none", logged |-> ""]

\* the five contact properties of the write operations
FieldNames == {"email", "firstname", "lastname", "phone", "company"}

\* a request body without properties
NoProps   == [f \in {} |-> ""]

\* Python's None among the arguments of a write operation
PyNone    == "None"

\* a call that names no property
NoArgs    == [f \in FieldNames |-> PyNone]

\* no dialog has called a write operation since the script last started
NoResult  == [op |-> "none", args |-> NoArgs, sent |-> FALSE, props |-> NoProps,
              ok |-> FALSE]

\* no contact is being parsed
NoContact == [id |-> 0, properties |-> "none", bag |-> NoProps]
NotParsed == [status |-> "none", values |-> NoProps]
ParseIdle == contact = NoContact /\ customer = NotParsed /\ inserted = NotParsed

\* the watch of git_details.py is not running
WatchIdle ==
    /\ pending_changes = FALSE /\ last_commit_time = 0 /\ now = 0
    /\ wpc = "idle" /\ mpc = "sleep" /\ setAt = 0 /\ owed = {} /\ events = 0

\* the transaction has read nothing yet: it has no read view
NoSnap    == <<>>

----------------------------------------------------------------------------
(* sync_customers_to_db: the pure parts *)

Counts(n, s, d, e) == [new |-> n, skipped |-> s, deleted |-> d, errors |-> e]

\* the test without its length half
IsNoneOnly(a) == a.isNone

\* if customers_df is None or len(customers_df) == 0
IsNoData(a) == a.isNone \/ Len(a.rows) = 0

ZeroCounts        == Counts(0, 0, 0, 0)

\* a refused connection reported as a pass that found nothing to do
ConnectFailSilent == Counts(0, 0, 0, 0)

ConnectFailCounts == Counts(0, 0, 0, 1)
SyncFailCounts    == Counts(0, 0, 0, 1)

\* set(str(record['hubspot_id']) for record in db_records)
DbIds(rows) == {h \in Ids : rows[h] # <<>>}

\* set(str(row['ID']) for _, row in customers_df.iterrows())
ApiIds(a) == {a.rows[i].ID : i \in 1..Len(a.rows)}

\* the difference never computed / the difference replaced by the local ids
IdsToDeleteNone(db, api) == {}
IdsToDeleteAll(db, api) == db

\* ids_to_delete = db_hubspot_ids - api_hubspot_ids
IdsToDelete(db, api) == db \ api

\* for hubspot_id in ids_to_delete: a set is iterated in an order of its own
Orders(S) == {s \in [1..Cardinality(S) -> S] : \A i, j \in DOMAIN s : s[i] = s[j] => i = j}

\* the DELETE without its WHERE clause
DeleteWhereAll(rows, h) == NoRows

\* DELETE FROM customer_entity WHERE hubspot_id = %s
DeleteWhere(rows, h) == [rows EXCEPT ![h] = <<>>]

\* SELECT hubspot_id ... WHERE hubspot_id = %s ; existing = cursor.fetchone()
Existing(rows, h) == rows[h] # <<>>

\* the column declared without UNIQUE
NoUniqueViolation(rows, h) == FALSE

\* hubspot_id VARCHAR(255) NOT NULL UNIQUE
UniqueViolation(rows, h) == rows[h] # <<>>

\* INSERT INTO customer_entity (hubspot_id, email, ...) VALUES (...)
InsertInto(rows, rec) == [rows EXCEPT ![rec.ID] = Append(@, rec.Fields)]

\* an existing row refreshed from the record (update in place)
UpdateExisting(rows, rec) ==
    [rows EXCEPT ![rec.ID] = [i \in DOMAIN @ |-> rec.Fields]]

\* if existing: skipped_count += 1; continue   -- the stored rows stay as they are
KeepExisting(rows, rec) == rows

\* the duplicate key counted as one more failed row
OnIntegrityErrorCounted(c) == [c EXCEPT !.errors = @ + 1]

\* except pymysql.IntegrityError: skipped_count += 1
OnIntegrityError(c) == [c EXCEPT !.skipped = @ + 1]

\* for _, row in customers_df.iterrows(): the next record, or conn.commit()
NextRowPc(a, i) == IF i > Len(a.rows) THEN "commit" ELSE "check"

\* conn.close() in the outer handler: a pymysql connection whose socket is gone
\* raises Error("Already closed") on drivers that test the socket in close()
CloseMayRaise(c) == c = "lost"

----------------------------------------------------------------------------
(* The transaction's views of the table *)

\* the read view of caller p: the one it holds, or the one its next read takes
SnapOf(p) == IF snap[p] = NoSnap THEN table ELSE snap[p]

\* consistent (snapshot) read of caller p
ReadView(p) == [h \in Ids |-> IF h \in wrote[p] THEN mine[p][h] ELSE SnapOf(p)[h]]

\* current read of caller p: latest committed rows and its own writes
CurrentRows(p) == [h \in Ids |-> IF h \in wrote[p] THEN mine[p][h] ELSE table[h]]

\* another open transaction holds a lock on the rows of hubspot id h
LockedByOther(p, h) == \E q \in Procs \ {p} : h \in wrote[q]

\* the hubspot id whose row lock the next statement of caller p asks for
\* (0: the statement locks no row)
Target(p) ==
    IF pc[p] = "delete" THEN Head(todel[p])
    ELSE IF pc[p] = "insert" THEN df[p].rows[idx[p]].ID
    ELSE 0

\* caller p waits for a row lock that caller q holds
WaitsFor(p, q) == conn[p] = "open" /\ Target(p) \in wrote[q]

\* InnoDB finds the cycle and makes one of the two statements fail (error 1213)
Deadlocked(p) == \E q \in Procs \ {p} : WaitsFor(p, q) /\ WaitsFor(q, p)

\* pymysql.connect(...): refused only when the store can fail
ConnectOutcomes == IF faulty THEN BOOLEAN ELSE {TRUE}

\* what a statement of caller p can do: run, fail (a lock wait timeout, a
\* missing table, a value the column rejects), fail by losing the connection,
\* or be the victim of a deadlock; on a lost connection every statement fails
Outcomes(p) ==
    IF conn[p] = "open"
      THEN {"ok"} \cup (IF faulty THEN {"error", "lost"} ELSE {})
                  \cup (IF Deadlocked(p) THEN {"deadlock"} ELSE {})
      ELSE {"error"}

\* a plain SELECT by key takes no lock and carries no value: it fails only
\* with the connection
ReadOutcomes(p) ==
    IF conn[p] = "open" THEN {"ok"} \cup (IF faulty THEN {"lost"} ELSE {})
                        ELSE {"error"}

ConnAfter(p, o) == IF o = "lost" THEN "lost" ELSE conn[p]

\* the failures after which the server has rolled the transaction back
RollsBack(o) == o \in {"lost", "deadlock"}

----------------------------------------------------------------------------
(* Initial state: a database without the mirror table, an empty directory *)

Init ==
    /\ table = NoRows
    /\ tableExists = FALSE
    /\ remote = <<>>
    /\ configured = TRUE
    /\ faulty = TRUE
    /\ ParseIdle
    /\ WatchIdle
    /\ pc = [p \in Procs |-> "idle"]
    /\ df = [p \in Procs |-> NoneDf]
    /\ conn = [p \in Procs |-> "closed"]
    /\ snap = [p \in Procs |-> NoSnap]
    /\ wrote = [p \in Procs |-> {}]
    /\ mine = [p \in Procs |-> NoRows]
    /\ todel = [p \in Procs |-> <<>>]
    /\ idx = [p \in Procs |-> 1]
    /\ cnt = [p \in Procs |-> ZeroCounts]
    /\ ret = [p \in Procs |-> ZeroCounts]
    /\ log = [p \in Procs |-> <<>>]
    /\ vpc = [p \in Procs |-> "none"]
    /\ db_status = [p \in Procs |-> FALSE]
    /\ fetched = [p \in Procs |-> NoFetch]
    /\ page = [p \in Procs |-> "none"]
    /\ ops = [p \in Procs |-> {}]
    /\ result = [p \in Procs |-> NoResult]
    /\ pre = [p \in Procs |-> NoRows]
    /\ fails = [p \in Procs |-> 0]
    /\ okDel = [p \in Procs |-> {}]
    /\ okIns = [p \in Procs |-> {}]
    /\ dupIds = [p \in Procs |-> {}]
    /\ prev = [p \in Procs |-> "none"]
    /\ rerun = [p \in Procs |-> FALSE]

----------------------------------------------------------------------------
(* init_db: CREATE TABLE IF NOT EXISTS customer_entity; commit *)

InitDbEffect(ok) == tableExists' = (tableExists \/ ok)

InitDb(p) ==
    /\ pc[p] = "idle"
    /\ vpc[p] = "none"
    /\ \E ok \in BOOLEAN : InitDbEffect(ok)
    /\ UNCHANGED <<table, envVars, pc, df, txVars, loopVars, ret, log,
                   viewVars, histVars>>

----------------------------------------------------------------------------
(* sync_customers_to_db, statement by statement *)

\* the open transaction's writes after a statement turned the rows it sees
\* from CurrentRows(p) into rows
WriteTx(p, rows) ==
    LET w == wrote[p] \cup {h \in Ids : rows[h] # CurrentRows(p)[h]}
    IN  /\ wrote' = [wrote EXCEPT ![p] = w]
        /\ mine' = [mine EXCEPT ![p] = [h \in Ids |-> IF h \in w THEN rows[h] ELSE <<>>]]

\* the connection is gone or closed without commit: the server rolls back
Rollback(p) ==
    /\ wrote' = [wrote EXCEPT ![p] = {}]
    /\ mine' = [mine EXCEPT ![p] = NoRows]
    /\ snap' = [snap EXCEPT ![p] = NoSnap]

\* lines 129-141: the empty test, get_db_connection, the counters
Call(p, a) ==
    /\ pc[p] = "idle"
    /\ df' = [df EXCEPT ![p] = a]
    /\ pre' = [pre EXCEPT ![p] = table]
    /\ rerun' = [rerun EXCEPT ![p] = (prev[p] = "clean" /\ a = df[p])]
    /\ okDel' = [okDel EXCEPT ![p] = {}]
    /\ okIns' = [okIns EXCEPT ![p] = {}]
    /\ dupIds' = [dupIds EXCEPT ![p] = {}]
    /\ cnt' = [cnt EXCEPT ![p] = ZeroCounts]
    /\ todel' = [todel EXCEPT ![p] = <<>>]
    /\ idx' = [idx EXCEPT ![p] = 1]
    /\ IF IsNoData(a)
         THEN /\ ret' = [ret EXCEPT ![p] = ZeroCounts]
              /\ pc' = [pc EXCEPT ![p] = "returned"]
              /\ log' = [log EXCEPT ![p] = <<>>]
              /\ fails' = [fails EXCEPT ![p] = 0]
              /\ UNCHANGED conn
         ELSE \E connected \in ConnectOutcomes :
                IF connected
                  THEN /\ conn' = [conn EXCEPT ![p] = "open"]
                       /\ pc' = [pc EXCEPT ![p] = "select_all"]
                       /\ log' = [log EXCEPT ![p] = <<>>]
                       /\ fails' = [fails EXCEPT ![p] = 0]
                       /\ UNCHANGED ret
                  ELSE /\ log' = [log EXCEPT ![p] =
                                    <<"Connection Attempt", "Customer Sync">>]
                       /\ ret' = [ret EXCEPT ![p] = ConnectFailCounts]
                       /\ pc' = [pc EXCEPT ![p] = "returned"]
                       /\ fails' = [fails EXCEPT ![p] = 1]
                       /\ conn' = [conn EXCEPT ![p] = "refused"]
    /\ UNCHANGED <<dbVars, envVars, snap, wrote, mine, prev>>

\* lines 210-214: the outer handler; conn.close() without commit rolls back
Handler(p, o) ==
    /\ Rollback(p)
    /\ log' = [log EXCEPT ![p] = Append(@, "Customer Sync Operation")]
    /\ fails' = [fails EXCEPT ![p] = @ + 1]
    /\ \E raises \in {FALSE, CloseMayRaise(ConnAfter(p, o))} :
         IF raises
           THEN /\ pc' = [pc EXCEPT ![p] = "raised"]
                /\ conn' = [conn EXCEPT ![p] = ConnAfter(p, o)]
                /\ UNCHANGED ret
           ELSE /\ pc' = [pc EXCEPT ![p] = "returned"]
                /\ conn' = [conn EXCEPT ![p] = "closed"]
                /\ ret' = [ret EXCEPT ![p] = SyncFailCounts]

\* lines 146-154: read the local ids, compute ids_to_delete
SelectAll(p) ==
    /\ pc[p] = "select_all"
    /\ \E o \in Outcomes(p) :
         IF o = "ok"
           THEN /\ tableExists
                /\ snap' = [snap EXCEPT ![p] = table]
                /\ \E order \in Orders(IdsToDelete(DbIds(table), ApiIds(df[p]))) :
                       todel' = [todel EXCEPT ![p] = order]
                /\ pc' = [pc EXCEPT ![p] =
                            IF todel'[p] # <<>> THEN "delete" ELSE NextRowPc(df[p], 1)]
                /\ UNCHANGED <<conn, wrote, mine, ret, log, fails>>
           ELSE /\ Handler(p, o)
                /\ UNCHANGED todel
    /\ UNCHANGED <<dbVars, envVars, df, idx, cnt, viewVars, pre, okDel, okIns,
                   dupIds, prev, rerun>>

\* lines 158-167: one iteration of the delete loop
DeleteRow(p) ==
    /\ pc[p] = "delete"
    /\ \E h \in {Head(todel[p])} : \E o \in Outcomes(p) :
         /\ IF o = "ok"
              THEN /\ ~LockedByOther(p, h)
                   /\ WriteTx(p, DeleteWhere(CurrentRows(p), h))
                   /\ cnt' = [cnt EXCEPT ![p].deleted = @ + 1]
                   /\ okDel' = [okDel EXCEPT ![p] = @ \cup {h}]
                   /\ UNCHANGED <<conn, snap, log, fails>>
              ELSE /\ cnt' = [cnt EXCEPT ![p].errors = @ + 1]
                   /\ log' = [log EXCEPT ![p] = Append(@, "Customer Deletion")]
                   /\ fails' = [fails EXCEPT ![p] = @ + 1]
                   /\ conn' = [conn EXCEPT ![p] = ConnAfter(p, o)]
                   /\ IF RollsBack(o) THEN Rollback(p)
                                       ELSE UNCHANGED <<snap, wrote, mine>>
                   /\ UNCHANGED okDel
         /\ todel' = [todel EXCEPT ![p] = Tail(@)]
         /\ pc' = [pc EXCEPT ![p] =
                     IF todel'[p] = <<>> THEN NextRowPc(df[p], 1) ELSE "delete"]
    /\ UNCHANGED <<dbVars, envVars, df, idx, ret, viewVars, pre, okIns, dupIds,
                   prev, rerun>>

\* the iterrows() loop moves to the next record, or to conn.commit()
Advance(p) ==
    /\ idx' = [idx EXCEPT ![p] = @ + 1]
    /\ pc' = [pc EXCEPT ![p] = NextRowPc(df[p], idx[p] + 1)]

\* the insert loop without its own try: the exception leaves the loop
RowErrorAborts(p, o) ==
    /\ log' = [log EXCEPT ![p] = Append(@, "Customer Insertion")]
    /\ fails' = [fails EXCEPT ![p] = @ + 1]
    /\ conn' = [conn EXCEPT ![p] = ConnAfter(p, o)]
    /\ Rollback(p)
    /\ pc' = [pc EXCEPT ![p] = "raised"]
    /\ UNCHANGED <<idx, cnt>>

\* the except clause without its error_count += 1
RowErrorUncounted(p, o) ==
    /\ log' = [log EXCEPT ![p] = Append(@, "Customer Insertion")]
    /\ fails' = [fails EXCEPT ![p] = @ + 1]
    /\ conn' = [conn EXCEPT ![p] = ConnAfter(p, o)]
    /\ IF RollsBack(o) THEN Rollback(p) ELSE UNCHANGED <<snap, wrote, mine>>
    /\ Advance(p)
    /\ UNCHANGED cnt

\* a statement of the insert loop raised something other than IntegrityError
RowError(p, o) ==
    /\ cnt' = [cnt EXCEPT ![p].errors = @ + 1]
    /\ log' = [log EXCEPT ![p] = Append(@, "Customer Insertion")]
    /\ fails' = [fails EXCEPT ![p] = @ + 1]
    /\ conn' = [conn EXCEPT ![p] = ConnAfter(p, o)]
    /\ IF RollsBack(o) THEN Rollback(p) ELSE UNCHANGED <<snap, wrote, mine>>
    /\ Advance(p)

\* lines 173-181: the existence check of one record
CheckRow(p) ==
    /\ pc[p] = "check"
    /\ LET rec == df[p].rows[idx[p]] IN
       \E o \in ReadOutcomes(p) :
         IF o = "ok"
           THEN IF Existing(ReadView(p), rec.ID)
                  THEN /\ cnt' = [cnt EXCEPT ![p].skipped = @ + 1]
                       /\ WriteTx(p, KeepExisting(CurrentRows(p), rec))
                       /\ Advance(p)
                       /\ snap' = [snap EXCEPT ![p] = SnapOf(p)]
                       /\ UNCHANGED <<conn, log, fails>>
                  ELSE /\ pc' = [pc EXCEPT ![p] = "insert"]
                       /\ snap' = [snap EXCEPT ![p] = SnapOf(p)]
                       /\ UNCHANGED <<conn, wrote, mine, idx, cnt, log, fails>>
           ELSE RowError(p, o)
    /\ UNCHANGED <<dbVars, envVars, df, todel, ret, viewVars, pre, okDel, okIns,
                   dupIds, prev, rerun>>

\* lines 184-203: the INSERT of one record
InsertRow(p) ==
    /\ pc[p] = "insert"
    /\ LET rec == df[p].rows[idx[p]] IN
       \E o \in Outcomes(p) :
         IF o = "ok"
           THEN /\ ~LockedByOther(p, rec.ID)
                /\ IF UniqueViolation(CurrentRows(p), rec.ID)
                     THEN /\ cnt' = [cnt EXCEPT ![p] = OnIntegrityError(@)]
                          /\ dupIds' = [dupIds EXCEPT ![p] = @ \cup {rec.ID}]
                          /\ UNCHANGED <<wrote, mine, okIns>>
                     ELSE /\ WriteTx(p, InsertInto(CurrentRows(p), rec))
                          /\ cnt' = [cnt EXCEPT ![p].new = @ + 1]
                          /\ okIns' = [okIns EXCEPT ![p] = @ \cup {rec.ID}]
                          /\ UNCHANGED dupIds
                /\ Advance(p)
                /\ UNCHANGED <<conn, snap, log, fails>>
           ELSE /\ RowError(p, o)
                /\ UNCHANGED <<okIns, dupIds>>
    /\ UNCHANGED <<dbVars, envVars, df, todel, ret, viewVars, pre, okDel, prev, rerun>>

\* lines 205-208: conn.commit(), conn.close(), return the counters
Commit(p) ==
    /\ pc[p] = "commit"
    /\ \E o \in Outcomes(p) :
         IF o = "ok"
           THEN /\ table' = CurrentRows(p)
                /\ Rollback(p)
                /\ conn' = [conn EXCEPT ![p] = "closed"]
                /\ ret' = [ret EXCEPT ![p] = cnt[p]]
                /\ pc' = [pc EXCEPT ![p] = "returned"]
                /\ UNCHANGED <<log, fails>>
           ELSE /\ Handler(p, o)
                /\ UNCHANGED table
    /\ UNCHANGED <<tableExists, envVars, df, loopVars, viewVars, pre,
                   okDel, okIns, dupIds, prev, rerun>>

\* the caller has the result (or the exception); the call's locals are gone
EndCall(p) ==
    /\ pc' = [pc EXCEPT ![p] = "idle"]
    /\ prev' = [prev EXCEPT ![p] =
                  IF pc[p] = "returned" /\ fails[p] = 0 THEN "clean" ELSE "dirty"]
    /\ df' = [df EXCEPT ![p] = IF pc[p] = "returned" /\ fails[p] = 0 THEN @ ELSE NoneDf]
    /\ conn' = [conn EXCEPT ![p] = "closed"]
    /\ todel' = [todel EXCEPT ![p] = <<>>]
    /\ idx' = [idx EXCEPT ![p] = 1]
    /\ cnt' = [cnt EXCEPT ![p] = ZeroCounts]
    /\ ret' = [ret EXCEPT ![p] = ZeroCounts]
    /\ log' = [log EXCEPT ![p] = <<>>]
    /\ pre' = [pre EXCEPT ![p] = NoRows]
    /\ fails' = [fails EXCEPT ![p] = 0]
    /\ okDel' = [okDel EXCEPT ![p] = {}]
    /\ okIns' = [okIns EXCEPT ![p] = {}]
    /\ dupIds' = [dupIds EXCEPT ![p] = {}]
    /\ rerun' = [rerun EXCEPT ![p] = FALSE]
    /\ UNCHANGED <<dbVars, envVars, snap, wrote, mine>>

Return(p) ==
    /\ pc[p] \in {"returned", "raised"}
    /\ vpc[p] = "none"
    /\ EndCall(p)
    /\ UNCHANGED viewVars

\* a script calls sync_customers_to_db with some argument
DirectCall(p) ==
    /\ vpc[p] = "none"
    /\ \E a \in Args : Call(p, a)
    /\ UNCHANGED viewVars

----------------------------------------------------------------------------
(* The dashboard's two entry points, app.py and pages/customers/view.py:   *)
(* one page load of a session, and the CRM write operations of its dialogs *)

\* the scripts a session can run
Pages == {"app", "view"}

\* the directory's listing: HubSpot gives every contact its own id
Directory == {l \in Listings : \A i, j \in 1..Len(l) : l[i].ID = l[j].ID => i = j}

\* check_database_status(): credentials, connection, information_schema query
StatusCanBeTrue == configured /\ tableExists

\* check_database_status() connects only when the credentials are configured
StatusOps == IF configured THEN {"connect"} ELSE {}

\* what check_database_status() returns: (True, None), or False with an error:
\* the table was not found (lines 78-80), or anything else (no credentials, no
\* connection, a failed query)
StatusOutcomes ==
    {"failed"} \cup (IF StatusCanBeTrue THEN {"healthy"} ELSE {})
               \cup (IF configured /\ ~tableExists THEN {"no_table"} ELSE {})

\* db_error kept for the load when it says that the table was not found
StatusNote(o) == IF o = "no_table" THEN {"no_table"} ELSE {}

\* view.py calls init_db() whenever the status is not healthy (every error
\* text is non-empty); app.py calls it if MYSQL_DATABASE and MYSQL_USER
InitWanted(pg, status) == IF pg = "view" THEN ~status ELSE configured

\* init_db(): the connection fails, or CREATE TABLE IF NOT EXISTS fails, or it
\* runs.  pymysql fills an empty user with the login name, so the statement can
\* run with MYSQL_USER unset.
InitOutcomes == {"noconn", "failed", "created"}
InitOps(o) ==
    CASE o = "noconn"  -> {"connect", "init_failed"}
      [] o = "failed"  -> {"connect", "init", "init_failed"}
      [] o = "created" -> {"connect", "init"}

\* the gate in front of the pass: db_status in view.py, the credentials in app.py
Gate(pg, status) == IF pg = "view" THEN status ELSE configured

\* requests.get(url, headers=headers, timeout=10) in view.py; no timeout in app.py
HasTimeout(pg) == pg = "view"

\* fetch_customers(): contacts = data.get("results", []); if not contacts: return None
FetchDf(contacts) == IF contacts = <<>> THEN NoneDf ELSE DataFrame(contacts)

\* the except clause that takes a failure: view.py has Timeout, HTTPError and
\* Exception, app.py has HTTPError and Exception
FetchClass(pg, failure) ==
    IF pg = "app" /\ failure = "timeout" THEN "other" ELSE failure

\* the context each class is logged with
FetchContext(class) ==
    CASE class = "timeout" -> "Fetch Customers Timeout"
      [] class = "http"    -> "Fetch Customers HTTP Error"
      [] class = "other"   -> "Fetch Customers Exception"

\* log_hubspot_error(error_msg, context): the entry written to the error log
LogHubspotError(context) == context

\* view.py logs the failure and shows it; app.py only shows it (st.error)
FetchLogged(pg, class) ==
    IF pg = "view" THEN LogHubspotError(FetchContext(class)) ELSE ""

\* if df is not None: if <gate>: sync_customers_to_db(df)
SyncWanted(d, gate) == ~d.isNone /\ gate

\* the script starts: view.py line 239, db_status, db_error = check_database_status();
\* app.py line 411
LoadStart(p) ==
    /\ vpc[p] = "none"
    /\ pc[p] = "idle"
    /\ \E pg \in Pages :
         /\ page' = [page EXCEPT ![p] = pg]
         /\ IF pg = "view"
              THEN \E o \in StatusOutcomes :
                     LET ok == o = "healthy" IN
                     /\ db_status' = [db_status EXCEPT ![p] = ok]
                     /\ ops' = [ops EXCEPT ![p] = StatusOps \cup StatusNote(o)]
                     /\ vpc' = [vpc EXCEPT ![p] =
                                  IF InitWanted(pg, ok) THEN "init" ELSE "fetch"]
              ELSE /\ db_status' = [db_status EXCEPT ![p] = FALSE]
                   /\ ops' = [ops EXCEPT ![p] = {}]
                   /\ vpc' = [vpc EXCEPT ![p] =
                                IF InitWanted(pg, FALSE) THEN "init" ELSE "fetch"]
    /\ result' = [result EXCEPT ![p] = NoResult]
    /\ UNCHANGED <<dbVars, envVars, pc, df, txVars, loopVars, ret, log, fetched,
                   histVars>>

\* view.py lines 241-247, app.py lines 411-415: init_db()
LoadInit(p) ==
    /\ vpc[p] = "init"
    /\ \E o \in InitOutcomes :
         /\ InitDbEffect(o = "created")
         /\ ops' = [ops EXCEPT ![p] = @ \cup InitOps(o)]
    /\ vpc' = [vpc EXCEPT ![p] = "fetch"]
    /\ UNCHANGED <<table, envVars, pc, df, txVars, loopVars, ret, log, db_status,
                   fetched, page, result, histVars>>

\* df = fetch_customers(): the GET is sent and the script waits for the answer
FetchSend(p) ==
    /\ vpc[p] = "fetch"
    /\ vpc' = [vpc EXCEPT ![p] = "waiting"]
    /\ UNCHANGED <<dbVars, envVars, pc, df, txVars, loopVars, ret, log, db_status,
                   fetched, page, ops, result, histVars>>

\* fetch_customers() returns: the listing, or None from one of its handlers
FetchDone(p, st) ==
    LET got == IF st = "ok" THEN remote ELSE <<>>
        d   == IF st = "ok" THEN FetchDf(remote) ELSE NoneDf
        cl  == IF st = "ok" THEN "none" ELSE FetchClass(page[p], st)
        lg  == IF st = "ok" THEN "" ELSE FetchLogged(page[p], cl)
    IN  /\ fetched' = [fetched EXCEPT ![p] =
                         [status |-> st, rows |-> got, class |-> cl, logged |-> lg]]
        /\ vpc' = [vpc EXCEPT ![p] =
                     IF SyncWanted(d, Gate(page[p], db_status[p])) THEN "sync" ELSE "done"]
        /\ UNCHANGED <<dbVars, envVars, pc, df, txVars, loopVars, ret, log, db_status,
                       page, ops, result, histVars>>

\* the directory answers (a listing or an error status), or the transport
\* fails (the operating system can also give up on a connection attempt)
FetchReply(p) ==
    /\ vpc[p] = "waiting"
    /\ \E st \in {"ok", "http", "other", "timeout"} : FetchDone(p, st)

\* the timeout of the request runs out: requests raises Timeout
FetchTimeout(p) ==
    /\ vpc[p] = "waiting"
    /\ HasTimeout(page[p])
    /\ FetchDone(p, "timeout")

\* sync_result = sync_customers_to_db(df)
LoadSync(p) ==
    /\ vpc[p] = "sync"
    /\ Call(p, FetchDf(fetched[p].rows))
    /\ vpc' = [vpc EXCEPT ![p] = "syncing"]
    /\ ops' = [ops EXCEPT ![p] = @ \cup {"connect", "pass"}]
    /\ UNCHANGED <<db_status, fetched, page, result>>

\* the script has run to its end; the next rerun starts from the top
LoadEnd(p) ==
    /\ \/ vpc[p] = "done" /\ UNCHANGED <<dbVars, envVars, pc, df, txVars, loopVars,
                                         ret, log, histVars>>
       \/ vpc[p] = "syncing" /\ pc[p] \in {"returned", "raised"} /\ EndCall(p)
    /\ vpc' = [vpc EXCEPT ![p] = "none"]
    /\ db_status' = [db_status EXCEPT ![p] = FALSE]
    /\ fetched' = [fetched EXCEPT ![p] = NoFetch]
    /\ page' = [page EXCEPT ![p] = "none"]
    /\ ops' = [ops EXCEPT ![p] = {}]
    /\ UNCHANGED result

\* contacts are added, edited and erased in HubSpot by others; what a page load
\* sees is the directory at its GET, so the changes are taken between the loads
RemoteChange ==
    /\ \A p \in Procs : vpc[p] = "none" /\ result[p] = NoResult
    /\ \E l \in Directory : remote' = l
    /\ remote' # remote
    /\ UNCHANGED <<dbVars, configured, faulty, parseVars, watchVars, pc, df, txVars,
                   loopVars, ret, log, viewVars, histVars>>

----------------------------------------------------------------------------
(* add_customer, update_customer, delete_customer: requests to HubSpot *)

\* an argument of a write operation: None, the empty string, or a text
ArgVals == {PyNone, "", "x"}

\* if email: ... -- None and "" are both false
Truthy(v) == v # PyNone /\ v # ""

\* the test written as "is not None"
UpdatePropertiesNotNone(args) ==
    [f \in {g \in FieldNames : args[g] # PyNone} |-> args[f]]

\* properties = {}; if email: properties["email"] = email; ...
UpdateProperties(args) ==
    [f \in {g \in FieldNames : Truthy(args[g])} |-> args[f]]

\* the write operation that also removes the contact's mirror row
MirrorAfterWriteThrough(rows, op, h) ==
    IF op = "delete" THEN [rows EXCEPT ![h] = <<>>] ELSE rows

\* the write operations hold no statement on customer_entity
MirrorAfterWrite(rows, op, h) == rows

\* the directory without the contact h
Without(l, h) == SelectSeq(l, LAMBDA c : c.ID # h)

\* the directory with the fields of contact h replaced
Edited(l, h, f) == [i \in DOMAIN l |-> IF l[i].ID = h THEN [ID |-> h, Fields |-> f]
                                                      ELSE l[i]]

\* the ids of the rows a dialog can be opened from
Shown == {remote[i].ID : i \in DOMAIN remote}

\* what a write operation leaves unchanged, and the mirror after it
WriteFrame(p, op, h) ==
    /\ vpc[p] = "none" /\ pc[p] = "idle" /\ result[p] = NoResult
    /\ table' = MirrorAfterWrite(table, op, h)
    /\ UNCHANGED <<tableExists, configured, faulty, parseVars, watchVars, pc, df,
                   txVars, loopVars, ret, log, vpc, db_status, fetched, page, ops,
                   histVars>>

\* add_customer (app.py): POST /crm/v3/objects/contacts; HubSpot gives the id
AddCustomer(p) ==
    \E h \in Ids : \E f \in FieldVals : \E ok \in BOOLEAN :
        /\ WriteFrame(p, "add", h)
        /\ ok => Len(remote) < MaxLen /\ \A i \in DOMAIN remote : remote[i].ID # h
        /\ remote' = IF ok THEN Append(remote, [ID |-> h, Fields |-> f]) ELSE remote
        /\ result' = [result EXCEPT ![p] =
                         [op |-> "add", args |-> NoArgs, sent |-> TRUE,
                          props |-> NoProps, ok |-> ok]]

\* update_customer: PATCH /crm/v3/objects/contacts/{contact_id}
UpdateCustomer(p) ==
    \E h \in Shown : \E args \in [FieldNames -> ArgVals] :
        LET properties == UpdateProperties(args)
        IN  /\ WriteFrame(p, "update", h)
            /\ IF DOMAIN properties = {}
                 THEN \* if not properties: return {"success": False, ...}
                      /\ remote' = remote
                      /\ result' = [result EXCEPT ![p] =
                                       [op |-> "update", args |-> args, sent |-> FALSE,
                                        props |-> NoProps, ok |-> FALSE]]
                 ELSE \E ok \in BOOLEAN : \E f \in FieldVals :
                      /\ ~ok => f = "a"
                      /\ remote' = IF ok THEN Edited(remote, h, f) ELSE remote
                      /\ result' = [result EXCEPT ![p] =
                                       [op |-> "update", args |-> args, sent |-> TRUE,
                                        props |-> properties, ok |-> ok]]

\* delete_customer: POST /crm/v3/objects/contacts/gdpr-delete
DeleteCustomer(p) ==
    \E h \in Shown : \E ok \in BOOLEAN :
        /\ WriteFrame(p, "delete", h)
        /\ remote' = IF ok THEN Without(remote, h) ELSE remote
        /\ result' = [result EXCEPT ![p] =
                         [op |-> "delete", args |-> NoArgs, sent |-> TRUE,
                          props |-> NoProps, ok |-> ok]]

----------------------------------------------------------------------------
(* fetch_customers: from a contact of the JSON answer to the record, and    *)
(* from the record to the values of the INSERT                             *)

\* a property of a contact in the answer: the key is not there, its value is
\* null, or it has a text
Upstream == {"absent", "null", "text"}

\* a contact: its id and its "properties"; the key can be missing, its value
\* null, or an object with some of the five properties
Contacts ==
    {[id |-> 1, properties |-> k, bag |-> NoProps] : k \in {"absent", "null"}}
    \cup {[id |-> 1, properties |-> "object", bag |-> b] :
             b \in [FieldNames -> Upstream]}

\* the sentinel
NA == "N/A"

\* dict.get(key, "N/A"): the default stands in for a missing key only
Get(bag, f) ==
    IF bag[f] = "absent" THEN NA
    ELSE IF bag[f] = "null" THEN PyNone
    ELSE "text"

\* contact.get("properties", {}).get(<name>, "N/A") for the five columns; a
\* null bag makes .get raise AttributeError and the fetch returns None
ParseContact(c) ==
    IF c.properties = "null" THEN [status |-> "raised", values |-> NoProps]
    ELSE IF c.properties = "absent"
    THEN [status |-> "record", values |-> [f \in FieldNames |-> NA]]
    ELSE [status |-> "record", values |-> [f \in FieldNames |-> Get(c.bag, f)]]

\* row.get('Email', 'N/A'), ...: the columns are all there, the values pass
\* as they are, None as NULL
InsertValues(rec) ==
    [status |-> "row", values |-> [f \in FieldNames |-> rec.values[f]]]

ParseStep ==
    /\ contact # NoContact /\ customer = NotParsed
    /\ customer' = ParseContact(contact)
    /\ UNCHANGED <<dbVars, remote, configured, faulty, contact, inserted, watchVars,
                   pc, df, txVars, loopVars, ret, log, viewVars, histVars>>

InsertStep ==
    /\ customer.status = "record" /\ inserted = NotParsed
    /\ inserted' = InsertValues(customer)
    /\ UNCHANGED <<dbVars, remote, configured, faulty, contact, customer, watchVars,
                   pc, df, txVars, loopVars, ret, log, viewVars, histVars>>

\* one contact of an answer, parsed and inserted
InitParse ==
    /\ contact \in Contacts
    /\ customer = NotParsed
    /\ inserted = NotParsed
    /\ WatchIdle
    /\ table = NoRows
    /\ tableExists = TRUE
    /\ remote = <<>>
    /\ configured = TRUE
    /\ faulty = FALSE
    /\ pc = [p \in Procs |-> "idle"]
    /\ df = [p \in Procs |-> NoneDf]
    /\ conn = [p \in Procs |-> "closed"]
    /\ snap = [p \in Procs |-> NoSnap]
    /\ wrote = [p \in Procs |-> {}]
    /\ mine = [p \in Procs |-> NoRows]
    /\ todel = [p \in Procs |-> <<>>]
    /\ idx = [p \in Procs |-> 1]
    /\ cnt = [p \in Procs |-> ZeroCounts]
    /\ ret = [p \in Procs |-> ZeroCounts]
    /\ log = [p \in Procs |-> <<>>]
    /\ vpc = [p \in Procs |-> "none"]
    /\ db_status = [p \in Procs |-> FALSE]
    /\ fetched = [p \in Procs |-> NoFetch]
    /\ page = [p \in Procs |-> "none"]
    /\ ops = [p \in Procs |-> {}]
    /\ result = [p \in Procs |-> NoResult]
    /\ pre = [p \in Procs |-> NoRows]
    /\ fails = [p \in Procs |-> 0]
    /\ okDel = [p \in Procs |-> {}]
    /\ okIns = [p \in Procs |-> {}]
    /\ dupIds = [p \in Procs |-> {}]
    /\ prev = [p \in Procs |-> "none"]
    /\ rerun = [p \in Procs |-> FALSE]

NextParse == ParseStep \/ InsertStep

SpecParse == InitParse /\ [][NextParse]_vars

----------------------------------------------------------------------------
(* git_details.py: the auto-commit watch.  The observer thread of watchdog  *)
(* calls the handler's on_modified, on_created and on_deleted (one body,    *)
(* three names); the main thread calls check_and_commit once a second.      *)
(* Nothing locks the handler's fields, so the statements of the two threads *)
(* interleave.  Time is counted in seconds.                                 *)

\* self.debounce_seconds = 5
debounce_seconds == 5

\* what an event is about: a directory, a file inside the .git directory,
\* git_details.py itself, a file whose path holds ".git" without being inside
\* the .git directory (.gitignore, .github/...), or any other file
EventKinds == {"directory", "in_dotgit", "script", "dotgit_name", "file"}

\* event.is_directory
IsDirectory(e) == e = "directory"

\* '.git' in event.src_path: a test on the text of the path
ContainsDotGit(e) == e \in {"in_dotgit", "dotgit_name"}

\* event.src_path.endswith('git_details.py')
EndsWithScript(e) == e = "script"

\* the handler returns before it records the event
Ignored(e) == IsDirectory(e) \/ ContainsDotGit(e) \/ EndsWithScript(e)

\* the events still to come are few, and they stop early enough for the
\* debounce of the last one to run out within the time that is modelled
MayArrive == events < MaxEvents /\ now + debounce_seconds <= MaxTime

\* on_modified / on_created / on_deleted, lines 191-200: the tests, and
\* self.pending_changes = True
OnEvent(e) ==
    /\ wpc = "idle" /\ MayArrive
    /\ events' = events + 1
    /\ owed' = owed \cup {e}
    /\ IF Ignored(e)
         THEN UNCHANGED <<pending_changes, setAt, wpc>>
         ELSE /\ pending_changes' = TRUE
              /\ setAt' = now
              /\ wpc' = "schedule_commit"
    /\ UNCHANGED <<last_commit_time, now, mpc>>
    /\ UNCHANGED <<dbVars, remote, configured, faulty, parseVars, pc, df, txVars,
                   loopVars, ret, log, viewVars, histVars>>

\* schedule_commit, line 227: self.last_commit_time = time.time()
ScheduleCommit ==
    /\ wpc = "schedule_commit"
    /\ last_commit_time' = now
    /\ wpc' = "idle"
    /\ UNCHANGED <<pending_changes, now, mpc, setAt, owed, events>>
    /\ UNCHANGED <<dbVars, remote, configured, faulty, parseVars, pc, df, txVars,
                   loopVars, ret, log, viewVars, histVars>>

\* time.time() - self.last_commit_time < self.debounce_seconds
TooEarly(t, last) == t - last < debounce_seconds

\* time.sleep(1) is over; check_and_commit, line 231: if not self.pending_changes
CheckPending ==
    /\ mpc = "sleep"
    /\ mpc' = IF pending_changes THEN "debounce" ELSE "sleep"
    /\ UNCHANGED <<pending_changes, last_commit_time, now, wpc, setAt, owed, events>>
    /\ UNCHANGED <<dbVars, remote, configured, faulty, parseVars, pc, df, txVars,
                   loopVars, ret, log, viewVars, histVars>>

\* line 234: the debounce test; too early, and the loop sleeps again
CheckDebounce ==
    /\ mpc = "debounce"
    /\ mpc' = IF TooEarly(now, last_commit_time) THEN "sleep" ELSE "clear"
    /\ UNCHANGED <<pending_changes, last_commit_time, now, wpc, setAt, owed, events>>
    /\ UNCHANGED <<dbVars, remote, configured, faulty, parseVars, pc, df, txVars,
                   loopVars, ret, log, viewVars, histVars>>

\* line 237: self.pending_changes = False
ClearPending ==
    /\ mpc = "clear"
    /\ pending_changes' = FALSE
    /\ mpc' = "commit"
    /\ UNCHANGED <<last_commit_time, now, wpc, setAt, owed, events>>
    /\ UNCHANGED <<dbVars, remote, configured, faulty, parseVars, pc, df, txVars,
                   loopVars, ret, log, viewVars, histVars>>

\* line 238: self.auto_commit_and_push() is called and returns; it stages and
\* commits what the working copy holds, so every event delivered so far is served
AutoCommitAndPush ==
    /\ mpc = "commit"
    /\ mpc' = "sleep"
    /\ owed' = {}
    /\ UNCHANGED <<pending_changes, last_commit_time, now, wpc, setAt, events>>
    /\ UNCHANGED <<dbVars, remote, configured, faulty, parseVars, pc, df, txVars,
                   loopVars, ret, log, viewVars, histVars>>

\* a second passes; the statements of the handler take far less, so the
\* modelled time does not end inside a handler
Tick ==
    /\ now < MaxTime
    /\ wpc # "idle" => now + debounce_seconds < MaxTime
    /\ now' = now + 1
    /\ UNCHANGED <<pending_changes, last_commit_time, wpc, mpc, setAt, owed, events>>
    /\ UNCHANGED <<dbVars, remote, configured, faulty, parseVars, pc, df, txVars,
                   loopVars, ret, log, viewVars, histVars>>

\* GitAutoCommitHandler.__init__ and the start of the loop; time.time() is far
\* from 0, so the first debounce has run out when the watch starts
InitWatch ==
    /\ pending_changes = FALSE
    /\ last_commit_time = 0
    /\ now = debounce_seconds
    /\ wpc = "idle"
    /\ mpc = "sleep"
    /\ setAt = 0
    /\ owed = {}
    /\ events = 0
    /\ ParseIdle
    /\ table = NoRows
    /\ tableExists = FALSE
    /\ remote = <<>>
    /\ configured = TRUE
    /\ faulty = FALSE
    /\ pc = [p \in Procs |-> "idle"]
    /\ df = [p \in Procs |-> NoneDf]
    /\ conn = [p \in Procs |-> "closed"]
    /\ snap = [p \in Procs |-> NoSnap]
    /\ wrote = [p \in Procs |-> {}]
    /\ mine = [p \in Procs |-> NoRows]
    /\ todel = [p \in Procs |-> <<>>]
    /\ idx = [p \in Procs |-> 1]
    /\ cnt = [p \in Procs |-> ZeroCounts]
    /\ ret = [p \in Procs |-> ZeroCounts]
    /\ log = [p \in Procs |-> <<>>]
    /\ vpc = [p \in Procs |-> "none"]
    /\ db_status = [p \in Procs |-> FALSE]
    /\ fetched = [p \in Procs |-> NoFetch]
    /\ page = [p \in Procs |-> "none"]
    /\ ops = [p \in Procs |-> {}]
    /\ result = [p \in Procs |-> NoResult]
    /\ pre = [p \in Procs |-> NoRows]
    /\ fails = [p \in Procs |-> 0]
    /\ okDel = [p \in Procs |-> {}]
    /\ okIns = [p \in Procs |-> {}]
    /\ dupIds = [p \in Procs |-> {}]
    /\ prev = [p \in Procs |-> "none"]
    /\ rerun = [p \in Procs |-> FALSE]

NextWatch ==
    \/ \E e \in EventKinds : OnEvent(e)
    \/ ScheduleCommit
    \/ CheckPending
    \/ CheckDebounce
    \/ ClearPending
    \/ AutoCommitAndPush
    \/ Tick

SpecWatch == InitWatch /\ [][NextWatch]_vars

\* Both threads run, and time passes: the observer thread finishes a handler
\* it has started, the loop of lines 305-307 goes on, the clock ticks.
SpecWatchFair ==
    /\ SpecWatch
    /\ WF_vars(ScheduleCommit)
    /\ WF_vars(CheckPending)
    /\ WF_vars(CheckDebounce)
    /\ WF_vars(ClearPending)
    /\ WF_vars(AutoCommitAndPush)
    /\ WF_vars(Tick)

\* one caller at a time: the passes are sequential
Next ==
    \/ InitDb(1)
    \/ DirectCall(1)
    \/ SelectAll(1)
    \/ DeleteRow(1)
    \/ CheckRow(1)
    \/ InsertRow(1)
    \/ Commit(1)
    \/ Return(1)

Spec == Init /\ [][Next]_vars

\* Two callers, one pass each, that may overlap.  The mirror starts as earlier
\* passes left it: created, with at most one row for each id.
InitConc ==
    \E t \in [Ids -> {<<>>, <<"a">>}] :
        /\ table = t
        /\ t[NumIds] = <<>>
        /\ tableExists = TRUE
        /\ remote = <<>>
        /\ configured = TRUE
        /\ faulty = TRUE
        /\ ParseIdle
        /\ WatchIdle
        /\ pc = [p \in Procs |-> "idle"]
        /\ df = [p \in Procs |-> NoneDf]
        /\ conn = [p \in Procs |-> "closed"]
        /\ snap = [p \in Procs |-> NoSnap]
        /\ wrote = [p \in Procs |-> {}]
        /\ mine = [p \in Procs |-> NoRows]
        /\ todel = [p \in Procs |-> <<>>]
        /\ idx = [p \in Procs |-> 1]
        /\ cnt = [p \in Procs |-> ZeroCounts]
        /\ ret = [p \in Procs |-> ZeroCounts]
        /\ log = [p \in Procs |-> <<>>]
        /\ vpc = [p \in Procs |-> "none"]
        /\ db_status = [p \in Procs |-> FALSE]
        /\ fetched = [p \in Procs |-> NoFetch]
        /\ page = [p \in Procs |-> "none"]
        /\ ops = [p \in Procs |-> {}]
        /\ result = [p \in Procs |-> NoResult]
        /\ pre = [p \in Procs |-> NoRows]
        /\ fails = [p \in Procs |-> 0]
        /\ okDel = [p \in Procs |-> {}]
        /\ okIns = [p \in Procs |-> {}]
        /\ dupIds = [p \in Procs |-> {}]
        /\ prev = [p \in Procs |-> "none"]
        /\ rerun = [p \in Procs |-> FALSE]

\* the records of caller 1 carry the fields "a", those of caller 2 "b"; the
\* listings and the mirror leave the last id out
ConcArgs(p) ==
    {DataFrame(l) : l \in {m \in Listings :
        /\ m # <<>>
        /\ \A i \in 1..Len(m) : /\ m[i].Fields = (IF p = 1 THEN "a" ELSE "b")
                                  /\ m[i].ID < NumIds}}

ConcCall(p) ==
    /\ vpc[p] = "none"
    /\ prev[p] = "none"
    /\ \E a \in ConcArgs(p) : Call(p, a)
    /\ UNCHANGED viewVars

NextConc ==
    \E p \in Procs :
        \/ ConcCall(p)
        \/ SelectAll(p)
        \/ DeleteRow(p)
        \/ CheckRow(p)
        \/ InsertRow(p)
        \/ Commit(p)
        \/ Return(p)

SpecConc == InitConc /\ [][NextConc]_vars

\* Two callers, one pass each, given the same non-empty listing; the store and
\* the network do not fail, so what goes wrong comes from the overlap alone.
InitSame ==
    \E t \in [Ids -> {<<>>, <<"a">>}] :
        /\ table = t
        /\ tableExists = TRUE
        /\ remote = <<>>
        /\ configured = TRUE
        /\ faulty = FALSE
        /\ ParseIdle
        /\ WatchIdle
        /\ pc = [p \in Procs |-> "idle"]
        /\ df = [p \in Procs |-> NoneDf]
        /\ conn = [p \in Procs |-> "closed"]
        /\ snap = [p \in Procs |-> NoSnap]
        /\ wrote = [p \in Procs |-> {}]
        /\ mine = [p \in Procs |-> NoRows]
        /\ todel = [p \in Procs |-> <<>>]
        /\ idx = [p \in Procs |-> 1]
        /\ cnt = [p \in Procs |-> ZeroCounts]
        /\ ret = [p \in Procs |-> ZeroCounts]
        /\ log = [p \in Procs |-> <<>>]
        /\ vpc = [p \in Procs |-> "none"]
        /\ db_status = [p \in Procs |-> FALSE]
        /\ fetched = [p \in Procs |-> NoFetch]
        /\ page = [p \in Procs |-> "none"]
        /\ ops = [p \in Procs |-> {}]
        /\ result = [p \in Procs |-> NoResult]
        /\ pre = [p \in Procs |-> NoRows]
        /\ fails = [p \in Procs |-> 0]
        /\ okDel = [p \in Procs |-> {}]
        /\ okIns = [p \in Procs |-> {}]
        /\ dupIds = [p \in Procs |-> {}]
        /\ prev = [p \in Procs |-> "none"]
        /\ rerun = [p \in Procs |-> FALSE]

\* the second caller is given the listing of the first while the first runs
SameArgs(p) ==
    {a \in Args : /\ NonEmptyListing(a)
                  /\ \A q \in Procs \ {p} :
                        prev[q] = "none" /\ pc[q] # "idle" => a = df[q]}

SameCall(p) ==
    /\ vpc[p] = "none"
    /\ prev[p] = "none"
    /\ \A q \in Procs \ {p} : prev[q] = "none"
    /\ \E a \in SameArgs(p) : Call(p, a)
    /\ UNCHANGED viewVars

\* a caller keeps its result until both passes are over
SameReturn(p) ==
    /\ \A q \in Procs : pc[q] \in {"returned", "raised"}
    /\ Return(p)

NextSame ==
    \E p \in Procs :
        \/ SameCall(p)
        \/ SelectAll(p)
        \/ DeleteRow(p)
        \/ CheckRow(p)
        \/ InsertRow(p)
        \/ Commit(p)
        \/ SameReturn(p)

SpecSame == InitSame /\ [][NextSame]_vars

\* one session of the customers page; the .env may or may not name the database
InitView ==
    \E c \in BOOLEAN :
        /\ configured = c
        /\ faulty = TRUE
        /\ ParseIdle
        /\ WatchIdle
        /\ table = NoRows
        /\ tableExists = FALSE
        /\ remote = <<>>
        /\ pc = [p \in Procs |-> "idle"]
        /\ df = [p \in Procs |-> NoneDf]
        /\ conn = [p \in Procs |-> "closed"]
        /\ snap = [p \in Procs |-> NoSnap]
        /\ wrote = [p \in Procs |-> {}]
        /\ mine = [p \in Procs |-> NoRows]
        /\ todel = [p \in Procs |-> <<>>]
        /\ idx = [p \in Procs |-> 1]
        /\ cnt = [p \in Procs |-> ZeroCounts]
        /\ ret = [p \in Procs |-> ZeroCounts]
        /\ log = [p \in Procs |-> <<>>]
        /\ vpc = [p \in Procs |-> "none"]
        /\ db_status = [p \in Procs |-> FALSE]
        /\ fetched = [p \in Procs |-> NoFetch]
        /\ page = [p \in Procs |-> "none"]
        /\ ops = [p \in Procs |-> {}]
        /\ result = [p \in Procs |-> NoResult]
        /\ pre = [p \in Procs |-> NoRows]
        /\ fails = [p \in Procs |-> 0]
        /\ okDel = [p \in Procs |-> {}]
        /\ okIns = [p \in Procs |-> {}]
        /\ dupIds = [p \in Procs |-> {}]
        /\ prev = [p \in Procs |-> "none"]
        /\ rerun = [p \in Procs |-> FALSE]

NextView ==
    \/ RemoteChange
    \/ LoadStart(1)
    \/ LoadInit(1)
    \/ FetchSend(1)
    \/ FetchReply(1)
    \/ FetchTimeout(1)
    \/ LoadSync(1)
    \/ SelectAll(1)
    \/ DeleteRow(1)
    \/ CheckRow(1)
    \/ InsertRow(1)
    \/ Commit(1)
    \/ LoadEnd(1)

SpecView == InitView /\ [][NextView]_vars

\* The page loads with the timeout of the request as the one step that is
\* sure to come: the directory and the store owe the script nothing.
SpecViewFair == SpecView /\ WF_vars(FetchTimeout(1))

\* One session that uses the write dialogs and refreshes the page, with a store
\* and a network that do not fail: the mirror table exists and starts empty.
InitWrites ==
    /\ table = NoRows
    /\ tableExists = TRUE
    /\ remote = <<>>
    /\ configured = TRUE
    /\ faulty = FALSE
    /\ ParseIdle
    /\ WatchIdle
    /\ pc = [p \in Procs |-> "idle"]
    /\ df = [p \in Procs |-> NoneDf]
    /\ conn = [p \in Procs |-> "closed"]
    /\ snap = [p \in Procs |-> NoSnap]
    /\ wrote = [p \in Procs |-> {}]
    /\ mine = [p \in Procs |-> NoRows]
    /\ todel = [p \in Procs |-> <<>>]
    /\ idx = [p \in Procs |-> 1]
    /\ cnt = [p \in Procs |-> ZeroCounts]
    /\ ret = [p \in Procs |-> ZeroCounts]
    /\ log = [p \in Procs |-> <<>>]
    /\ vpc = [p \in Procs |-> "none"]
    /\ db_status = [p \in Procs |-> FALSE]
    /\ fetched = [p \in Procs |-> NoFetch]
    /\ page = [p \in Procs |-> "none"]
    /\ ops = [p \in Procs |-> {}]
    /\ result = [p \in Procs |-> NoResult]
    /\ pre = [p \in Procs |-> NoRows]
    /\ fails = [p \in Procs |-> 0]
    /\ okDel = [p \in Procs |-> {}]
    /\ okIns = [p \in Procs |-> {}]
    /\ dupIds = [p \in Procs |-> {}]
    /\ prev = [p \in Procs |-> "none"]
    /\ rerun = [p \in Procs |-> FALSE]

\* else: st.error(result['error']) -- the dialog is closed, its result is gone
Dismiss(p) ==
    /\ result[p] # NoResult /\ ~result[p].ok
    /\ result' = [result EXCEPT ![p] = NoResult]
    /\ UNCHANGED <<dbVars, envVars, pc, df, txVars, loopVars, ret, log, vpc,
                   db_status, fetched, page, ops, histVars>>

\* if result["success"]: st.rerun() -- the script runs again: it fetches the
\* directory and, for a listing, starts the pass
Refresh(p) ==
    /\ vpc[p] = "none" /\ pc[p] = "idle"
    /\ result[p] = NoResult \/ result[p].ok
    /\ result' = [result EXCEPT ![p] = NoResult]
    /\ IF FetchDf(remote).isNone
         THEN UNCHANGED <<dbVars, envVars, pc, df, txVars, loopVars, ret, log,
                          histVars>>
         ELSE Call(p, FetchDf(remote))
    /\ UNCHANGED <<vpc, db_status, fetched, page, ops>>

NextWrites ==
    \/ AddCustomer(1)
    \/ UpdateCustomer(1)
    \/ DeleteCustomer(1)
    \/ Dismiss(1)
    \/ Refresh(1)
    \/ SelectAll(1)
    \/ DeleteRow(1)
    \/ CheckRow(1)
    \/ InsertRow(1)
    \/ Commit(1)
    \/ Return(1)

SpecWrites == InitWrites /\ [][NextWrites]_vars

----------------------------------------------------------------------------
(* Properties of the sequential passes (Spec) *)

Card(S) == Cardinality(S)
Returned(p) == pc[p] = "returned"
Clean(p) == Returned(p) /\ fails[p] = 0
NonEmpty(a) == ~a.isNone /\ a.rows # <<>>
L(p) == DbIds(pre[p])
R(p) == {df[p].rows[i].ID : i \in 1..Len(df[p].rows)}

\* C1: a call with None or with a zero-length listing returns all-zero counts,
\* opens no connection, logs nothing and leaves every row of the mirror as it was.
C1_EmptyFetchSafety ==
    \A p \in Procs :
        (pc[p] \in {"returned", "raised"} /\ ~NonEmpty(df[p])) =>
            /\ pc[p] = "returned"
            /\ ret[p] = Counts(0, 0, 0, 0)
            /\ table = pre[p]
            /\ conn[p] = "closed"
            /\ log[p] = <<>>

C1_Witness ==
    /\ Returned(1) /\ ~df[1].isNone /\ df[1].rows = <<>>
    /\ DbIds(table) = Ids

\* C2 as stated: after any error-free call the mirror's id set is the id set of
\* the listing and the counts are |R - L|, |R /\ L|, |L - R|, 0.
C2_AsStated ==
    \A p \in Procs :
        Clean(p) =>
            /\ DbIds(table) = R(p)
            /\ ret[p] = Counts(Card(R(p) \ L(p)), Card(R(p) \cap L(p)),
                               Card(L(p) \ R(p)), 0)

\* C2 amended: after an error-free call with a non-empty listing the mirror's id
\* set is the id set of the listing, new = |R - L|, deleted = |L - R|, errors = 0
\* and skipped = (records in the listing) - |R - L|.
C2_SetCorrectness ==
    \A p \in Procs :
        (Clean(p) /\ NonEmpty(df[p])) =>
            /\ DbIds(table) = R(p)
            /\ ret[p] = Counts(Card(R(p) \ L(p)),
                               Len(df[p].rows) - Card(R(p) \ L(p)),
                               Card(L(p) \ R(p)), 0)

C2_Witness ==
    /\ Clean(1) /\ Len(df[1].rows) = 2
    /\ L(1) = {1} /\ R(1) = {2}
    /\ ret[1] = Counts(1, 1, 1, 0)

\* C3 as stated: the second of two error-free calls with the same non-empty
\* listing returns {0, N, 0, 0}, N the number of rows inserted before it, and
\* leaves the mirror as the first call left it.
C3_AsStated ==
    \A p \in Procs :
        (Clean(p) /\ rerun[p] /\ NonEmpty(df[p])) =>
            /\ ret[p] = Counts(0, Card(DbIds(pre[p])), 0, 0)
            /\ table = pre[p]

\* C3 amended: the second of two error-free calls with the same listing returns
\* {0, N, 0, 0}, N the number of records of the listing, and leaves the mirror
\* as the first call left it.
C3_Idempotence ==
    \A p \in Procs :
        (Clean(p) /\ rerun[p]) =>
            /\ ret[p] = Counts(0, Len(df[p].rows), 0, 0)
            /\ table = pre[p]

C3_Witness ==
    /\ Clean(1) /\ rerun[1]
    /\ Len(df[1].rows) = 2 /\ Card(R(1)) = 2
    /\ ret[1] = Counts(0, 2, 0, 0)

\* a step keeps the fields of every row that it neither inserts nor deletes
NoFieldUpdate ==
    \A h \in Ids : (table[h] # <<>> /\ table'[h] # <<>>) => table'[h] = table[h]

\* the rows of the listing's ids that the mirror held when the call started are
\* in the mirror, as they were, when the call ends
RowsOfListingKept ==
    \A p \in Procs :
        pc[p] \in {"returned", "raised"} =>
            \A h \in R(p) : pre[p][h] # <<>> => table[h] = pre[p][h]

\* C4: a row whose id is in the listing still holds, after the pass, the values
\* of its first insert, whatever fields the listing carries; no step changes the
\* fields of a row.
C4_FieldImmutability == []RowsOfListingKept /\ [][NoFieldUpdate]_vars

C4_Witness ==
    /\ Clean(1)
    /\ \E i \in 1..Len(df[1].rows) :
          /\ pre[1][df[1].rows[i].ID] # <<>>
          /\ pre[1][df[1].rows[i].ID][1] # df[1].rows[i].Fields
          /\ table[df[1].rows[i].ID] = pre[1][df[1].rows[i].ID]

\* C5: the committed mirror never holds two rows with one hubspot id, whatever
\* the interleaving of two passes, their failures and the ids their listings repeat.
C5_Uniqueness == \A h \in Ids : Len(table[h]) <= 1

\* caller 2, with a listing that names id 1 twice, had a delete fail and met the
\* UNIQUE constraint on a row the other caller committed in between
C5_Witness ==
    /\ Returned(2) /\ dupIds[2] = {1} /\ fails[2] > 0
    /\ Len(df[2].rows) = 2 /\ R(2) = {1}
    /\ table[1] = <<"a">>

\* the page load of session p is complete, its store check was healthy, its
\* fetch succeeded, and nothing failed in the pass if one ran
RefreshDone(p) ==
    /\ db_status[p]
    /\ fetched[p].status = "ok"
    /\ \/ vpc[p] = "syncing" /\ Clean(p)
       \/ vpc[p] = "done"

FetchedIds(p) == {fetched[p].rows[i].ID : i \in 1..Len(fetched[p].rows)}

\* C6 as stated: after a complete, error-free refresh the mirror's ids are the
\* ids of the listing that the refresh fetched, an empty listing included.
C6_AsStated ==
    \A p \in Procs : RefreshDone(p) => DbIds(table) = FetchedIds(p)

\* C6 amended: after a complete, error-free refresh whose fetch returned at
\* least one contact, the mirror's ids are the ids of the fetched listing; when
\* the directory is empty the fetch gives no data and no pass is started.
C6_MirrorMembership ==
    \A p \in Procs :
        RefreshDone(p) =>
            IF fetched[p].rows # <<>>
              THEN vpc[p] = "syncing" /\ DbIds(table) = FetchedIds(p)
              ELSE vpc[p] = "done" /\ pc[p] = "idle"

C6_Witness ==
    /\ RefreshDone(1) /\ vpc[1] = "syncing"
    /\ L(1) = {1} /\ FetchedIds(1) = {2} /\ DbIds(table) = {2}

\* C7: a call with a non-empty listing whose connection is refused returns
\* {0, 0, 0, 1}, logs the connection error, raises nothing and leaves the mirror.
C7_StoreUnreachable ==
    \A p \in Procs :
        conn[p] = "refused" =>
            /\ pc[p] = "returned"
            /\ ret[p] = Counts(0, 0, 0, 1)
            /\ log[p] = <<"Connection Attempt", "Customer Sync">>
            /\ table = pre[p]
            /\ wrote[p] = {}

C7_Witness ==
    /\ conn[1] = "refused" /\ NonEmpty(df[1]) /\ DbIds(table) = Ids

\* a statement of the delete loop or of the insert loop fails in this step
RowFails(p) == pc[p] \in {"delete", "check", "insert"} /\ fails'[p] = fails[p] + 1

\* the failure is counted once, logged once, and the loop goes on
RowFailureIsolated ==
    \A p \in Procs :
        RowFails(p) =>
            /\ cnt'[p] = [cnt[p] EXCEPT !.errors = @ + 1]
            /\ Len(log'[p]) = Len(log[p]) + 1
            /\ log'[p][Len(log'[p])] =
                 IF pc[p] = "delete" THEN "Customer Deletion" ELSE "Customer Insertion"
            /\ IF pc[p] = "delete"
                 THEN /\ Len(todel'[p]) = Len(todel[p]) - 1
                      /\ pc'[p] = IF todel'[p] # <<>> THEN "delete"
                                  ELSE IF Len(df[p].rows) >= 1 THEN "check" ELSE "commit"
                      /\ idx'[p] = idx[p]
                 ELSE /\ idx'[p] = idx[p] + 1
                      /\ pc'[p] = IF idx'[p] <= Len(df[p].rows) THEN "check" ELSE "commit"
                      /\ todel'[p] = todel[p]

\* conn.commit() is reached only with both loops run to their end
LoopsRunToEnd ==
    \A p \in Procs :
        pc[p] = "commit" => todel[p] = <<>> /\ idx[p] = Len(df[p].rows) + 1

\* C8: a failing row delete or row insert adds one to the error count, is logged,
\* and the pass goes on with the remaining ids and records.
C8_RowErrorIsolation == []LoopsRunToEnd /\ [][RowFailureIsolated]_vars

C8_Witness ==
    /\ pc[1] = "commit" /\ Len(df[1].rows) = 2
    /\ cnt[1].errors = 2 /\ cnt[1].new = 1 /\ cnt[1].deleted = 0
    /\ log[1] = <<"Customer Deletion", "Customer Insertion">>

\* C9 as stated: no call ends with an exception reaching its caller.
C9_NoEscape == \A p \in Procs : pc[p] # "raised"

\* C10 as stated: when the call ends, every row statement of it that succeeded
\* is in the mirror: the inserted ids have a row, the deleted ids have none.
C10_PerRowCommit ==
    \A p \in Procs :
        pc[p] \in {"returned", "raised"} =>
            /\ \A h \in okIns[p] : table[h] # <<>>
            /\ \A h \in okDel[p] : table[h] = <<>>

\* the INSERT of caller p met a row with its hubspot id in this step
DupKeyStep(p) ==
    /\ pc[p] = "insert" /\ idx'[p] = idx[p] + 1 /\ fails'[p] = fails[p]
    /\ CurrentRows(p)[Target(p)] # <<>>

\* C17: an INSERT that fails on the duplicate key, after the existence check
\* found no row, adds one to skipped, adds nothing to errors, logs nothing,
\* writes nothing, and the loop goes on with the next record.
C17_DuplicateKeyBenign ==
    [][\A p \in Procs :
        DupKeyStep(p) =>
            /\ cnt'[p] = [cnt[p] EXCEPT !.skipped = @ + 1]
            /\ log'[p] = log[p]
            /\ wrote'[p] = wrote[p] /\ table' = table
            /\ pc'[p] = IF idx'[p] <= Len(df[p].rows) THEN "check" ELSE "commit"]_vars

\* caller 2 met the row that caller 1 committed after caller 2 took its read
\* view, counted no error, and is at its next record
C17_Witness ==
    /\ pc[2] = "check" /\ idx[2] = 2 /\ dupIds[2] = {df[2].rows[1].ID}
    /\ cnt[2] = Counts(0, 1, 0, 0) /\ fails[2] = 0 /\ log[2] = <<>>
    /\ okIns[1] = dupIds[2] /\ snap[2][df[2].rows[1].ID] = <<>>

\* C18: after an error-free pass over a non-empty listing the mirror's ids are
\* the ids of that listing, whatever the passes before it left in the mirror.
C18_LastPassWins ==
    \A p \in Procs :
        (Clean(p) /\ NonEmpty(df[p])) => DbIds(table) = ApiIds(df[p])

\* an error-free pass, after an earlier error-free one, over a listing that
\* shares no id with what the mirror held
C18_Witness ==
    /\ Clean(1) /\ NonEmpty(df[1]) /\ prev[1] = "clean" /\ ~rerun[1]
    /\ Card(L(1)) = 2 /\ L(1) \cap R(1) = {}
    /\ DbIds(table) = R(1)

\* C20: when a pass over a non-empty listing is over, however it ended, the
\* mirror's ids M satisfy (L /\ R) <= M <= (L \/ R), every row of L still in the
\* mirror is as it was, and every new row carries the fields of a record of the
\* listing with its id.
C20_ConsistentIfIncomplete ==
    \A p \in Procs :
        (pc[p] \in {"returned", "raised"} /\ NonEmpty(df[p])) =>
            LET M == DbIds(table) IN
            /\ (L(p) \cap R(p)) \subseteq M
            /\ M \subseteq (L(p) \cup R(p))
            /\ \A h \in M \cap L(p) : table[h] = pre[p][h]
            /\ \A h \in M \ L(p) :
                  \E i \in 1..Len(df[p].rows) :
                      df[p].rows[i].ID = h /\ table[h] = <<df[p].rows[i].Fields>>

\* a pass in which one DELETE failed and one INSERT failed has committed the rest
C20_Witness ==
    /\ Returned(1) /\ fails[1] = 2 /\ ret[1] = Counts(1, 0, 1, 2)
    /\ DbIds(table) # L(1) /\ DbIds(table) # R(1)

\* how many times the call logged an error with the context c
Logged(p, c) == Card({i \in DOMAIN log[p] : log[p][i] = c})

\* the pass reached line 208, return {"new": ..., "errors": ...}: it connected
\* and the outer handler did not run
NormalReturn(p) ==
    /\ Returned(p) /\ NonEmpty(df[p])
    /\ Logged(p, "Connection Attempt") = 0
    /\ Logged(p, "Customer Sync Operation") = 0

\* C22: at the normal return of a pass over a non-empty listing, every record
\* (repeated ids counted separately) has added one to new, skipped or errors,
\* every id of L - R has added one to deleted or errors, and so
\* new + skipped + deleted + errors = (records of the listing) + |L - R|.
C22_CounterAccounting ==
    \A p \in Procs :
        NormalReturn(p) =>
            LET c == ret[p] IN
            /\ c.new + c.skipped + Logged(p, "Customer Insertion") = Len(df[p].rows)
            /\ c.deleted + Logged(p, "Customer Deletion") = Card(L(p) \ R(p))
            /\ c.errors = Logged(p, "Customer Insertion") + Logged(p, "Customer Deletion")
            /\ c.new + c.skipped + c.deleted + c.errors
                  = Len(df[p].rows) + Card(L(p) \ R(p))

\* a pass that returns normally with a new row, a skipped record (a repeated
\* id), a deleted row and a failed DELETE
C22_Witness ==
    /\ NormalReturn(1)
    /\ ret[1] = Counts(1, 1, 1, 1)
    /\ Logged(1, "Customer Deletion") = 1
    /\ Card(R(1)) = 1

\* the pass failed outside a row operation: reading the local ids or the final
\* commit raised, and the outer handler ran
FailedOutsideRow(p) ==
    /\ pc[p] \in {"returned", "raised"}
    /\ Logged(p, "Customer Sync Operation") > 0

\* the counts that the pass returned are in the mirror: the rows it counted as
\* new are there, the rows it counted as deleted are not
CountsCommitted(p) ==
    (Returned(p) /\ (ret[p].new > 0 \/ ret[p].deleted > 0)) =>
        /\ ret[p].new = Card(okIns[p]) /\ ret[p].deleted = Card(okDel[p])
        /\ \A h \in okIns[p] : table[h] # <<>>
        /\ \A h \in okDel[p] : table[h] = <<>>

\* a failure outside a row operation is returned as one error, and the mirror
\* is as it was before the pass
OuterFailureReturned(p) ==
    FailedOutsideRow(p) =>
        /\ Returned(p) /\ ret[p] = Counts(0, 0, 0, 1)
        /\ table = pre[p]

\* C23 as stated: a pass that returns non-zero new or deleted counts has
\* committed all of those inserts and deletes, and a pass that fails outside a
\* row operation returns {new: 0, skipped: 0, deleted: 0, errors: 1} with the
\* mirror exactly as it was before the pass.
C23_ReportedCountsCommitted ==
    \A p \in Procs : CountsCommitted(p) /\ OuterFailureReturned(p)

\* in sequential passes the first half of C23 holds, and so does the second
\* whenever the handler's conn.close() does not raise
C23_SequentialPart ==
    \A p \in Procs :
        /\ CountsCommitted(p)
        /\ (FailedOutsideRow(p) /\ Returned(p)) =>
              ret[p] = Counts(0, 0, 0, 1) /\ table = pre[p]

\* the first half of C23 at the commit of a pass that overlaps another one:
\* what the pass counted is in the mirror when it returns
C23_CommittedAtReturn ==
    [][\A p \in Procs :
          (pc[p] = "commit" /\ pc'[p] = "returned"
             /\ (ret'[p].new > 0 \/ ret'[p].deleted > 0)) =>
              /\ \A h \in okIns[p] : table'[h] # <<>>
              /\ \A h \in okDel[p] : table'[h] = <<>>]_vars

----------------------------------------------------------------------------
(* Properties of two passes with different listings (SpecConc) *)

\* both passes are over
BothEnded == \A p \in Procs : pc[p] \in {"returned", "raised"} /\ NonEmpty(df[p])

\* both passes are over and no statement of either failed
BothClean == \A p \in Procs : Clean(p) /\ NonEmpty(df[p])

\* C24 as stated: when two passes with non-empty listings R1 and R2 are over,
\* the mirror's ids are the ids of R1 or the ids of R2, as after the two passes
\* in some sequential order (stated here for passes without a failed statement).
C24_AsStated ==
    BothClean => DbIds(table) \in {R(1), R(2)}

\* C24: when two passes with non-empty listings R1 and R2 are over, every id of
\* the mirror was in the mirror before or is in R1 or R2, and has one row; if no
\* statement of either pass failed, the mirror's ids M satisfy
\* (R1 /\ R2) <= M <= (R1 \/ R2).
C24_MergedOutcome ==
    LET M == DbIds(table) IN
    /\ BothEnded =>
          /\ M \subseteq (L(1) \cup L(2) \cup R(1) \cup R(2))
          /\ \A h \in M : Len(table[h]) = 1
    /\ BothClean =>
          /\ (R(1) \cap R(2)) \subseteq M
          /\ M \subseteq (R(1) \cup R(2))

\* two clean passes that leave the union of their listings, which neither
\* sequential order gives: each inserted its record and deleted nothing
C24_Witness ==
    /\ BothClean
    /\ DbIds(table) = R(1) \cup R(2)
    /\ DbIds(table) \notin {R(1), R(2)}
    /\ \A p \in Procs : ret[p] = Counts(1, 0, 0, 0)

\* the DELETE statement of pass p ran without an exception in this step
DeleteRan(p) == pc[p] = "delete" /\ okDel'[p] # okDel[p]

\* the rows that the DELETE of pass p removes: those with the id, as the
\* statement sees them (latest committed rows and the pass's own writes)
RowsRemoved(p) == Len(CurrentRows(p)[Head(todel[p])])

\* C25 as stated: the deleted count of a pass is the number of mirror rows the
\* pass removed, so each DELETE that runs adds to the count the number of rows
\* it removes, and a DELETE that removes no row adds nothing.
C25_DeletedCountExact ==
    [][\A p \in Procs :
          DeleteRan(p) => cnt'[p].deleted = cnt[p].deleted + RowsRemoved(p)]_vars

\* in sequential passes every DELETE finds its row
C25_SequentialDeletes ==
    [][DeleteRan(1) => RowsRemoved(1) = 1 /\ cnt'[1].deleted = cnt[1].deleted + 1]_vars

----------------------------------------------------------------------------
(* Properties of the page loads (SpecView, SpecViewFair) *)

\* C13 as stated: without the database name or user, a page load makes no
\* connection attempt, no schema initialisation and no pass, and still fetches
\* the listing before it ends.
C13_ApiOnlyMode ==
    ~configured =>
        \A p \in Procs :
            /\ ops[p] = {}
            /\ vpc[p] \notin {"sync", "syncing"}
            /\ vpc[p] = "done" => fetched[p].status # "none"

\* C14 as stated: a fetch that waits for the directory stops waiting, whether
\* or not the directory ever answers, in app.py and in view.py.
C14_BoundedFetchWait ==
    \A p \in Procs : (vpc[p] = "waiting") ~> (vpc[p] # "waiting")

FetchFailures == {"timeout", "http", "other"}

\* C15 as stated: a fetch that fails by a timeout, an HTTP error status or
\* anything else is put into that one class, is logged with the context of that
\* class and of no other, returns no data, and no pass follows.
C15_FetchFailureHandling ==
    \A p \in Procs :
        fetched[p].status \in FetchFailures =>
            /\ fetched[p].class = fetched[p].status
            /\ fetched[p].logged # ""
            /\ \A c \in FetchFailures :
                  fetched[p].logged = FetchContext(c) <=> c = fetched[p].status
            /\ fetched[p].rows = <<>>
            /\ vpc[p] \notin {"sync", "syncing"}

\* the store check of a page load reported a healthy store: the status that
\* view.py got from check_database_status(), the init_db() that app.py ran
StoreCheckHealthy(p) ==
    IF page[p] = "view" THEN db_status[p]
    ELSE "init" \in ops[p] /\ "init_failed" \notin ops[p]

\* a pass is attempted in the page load of session p
PassAttempted(p) == vpc[p] \in {"sync", "syncing"}

\* C21 as stated: a page load attempts a pass only if its store check reported
\* the store healthy and the fetch returned data; a load whose store check
\* failed attempts none.
C21_SyncGating ==
    \A p \in Procs :
        PassAttempted(p) =>
            /\ StoreCheckHealthy(p)
            /\ fetched[p].status = "ok" /\ fetched[p].rows # <<>>

\* the customers view alone keeps the gate (view.py lines 239-253)
C21_ViewGating ==
    \A p \in Procs :
        PassAttempted(p) /\ page[p] = "view" =>
            /\ db_status[p] /\ configured /\ tableExists
            /\ fetched[p].status = "ok" /\ fetched[p].rows # <<>>

\* the script of session p has run to its end
LoadOver(p) ==
    \/ vpc[p] = "done"
    \/ vpc[p] = "syncing" /\ pc[p] \in {"returned", "raised"}

\* a first load of the customers view: the database is configured and
\* reachable, the status check found no customer_entity table, init_db()
\* created it, and the fetch returned a non-empty listing
FirstLoad(p) ==
    /\ page[p] = "view" /\ configured
    /\ "no_table" \in ops[p]
    /\ "init" \in ops[p] /\ "init_failed" \notin ops[p]
    /\ fetched[p].status = "ok" /\ fetched[p].rows # <<>>

\* C26 as stated: a first load of the customers view creates the table and
\* also runs the pass, so that when the load is over the mirror's ids are the
\* ids of the fetched listing.
C26_FirstLoadConvergence ==
    \A p \in Procs :
        FirstLoad(p) /\ LoadOver(p) =>
            /\ tableExists
            /\ "pass" \in ops[p]
            /\ DbIds(table) = FetchedIds(p)

\* what the first load does: it creates the table and starts no pass
C26_FirstLoadSkipsPass ==
    \A p \in Procs :
        FirstLoad(p) =>
            /\ tableExists /\ ~db_status[p]
            /\ ~PassAttempted(p) /\ "pass" \notin ops[p]
            /\ table = NoRows

----------------------------------------------------------------------------
(* Properties of the auto-commit watch (SpecWatch, SpecWatchFair) *)

\* the file events that are to be committed: not a directory, not under .git,
\* not git_details.py
Relevant(e) == e \notin {"directory", "in_dotgit", "script"}

\* auto_commit_and_push is invoked in this step
Invoked == mpc = "commit" /\ mpc' = "sleep"

\* C27 as stated: auto_commit_and_push is invoked only when at least
\* debounce_seconds have passed since the latest event that set
\* pending_changes, however the handler's statements and those of
\* check_and_commit interleave.
C27_Debounce ==
    [][Invoked => now - setAt >= debounce_seconds]_vars

\* what the test of line 234 gives: when it is made, debounce_seconds have
\* passed since the latest schedule_commit that has run
C27_DebounceAtTest ==
    [][(mpc = "debounce" /\ mpc' = "clear")
          => now - last_commit_time >= debounce_seconds]_vars

\* C28 as stated: every relevant file event (not a directory, not under .git,
\* not git_details.py) is followed by an invocation of auto_commit_and_push,
\* once events have stopped arriving.
C28_NoLostChange ==
    \A e \in {k \in EventKinds : Relevant(k)} : (e \in owed) ~> (e \notin owed)

\* every event that the handler records is followed by an invocation: the
\* clearing of pending_changes loses none of them
C28_RecordedNotLost ==
    \A e \in {k \in EventKinds : ~Ignored(k)} : (e \in owed) ~> (e \notin owed)

----------------------------------------------------------------------------
(* Properties of the parsed record (SpecParse) *)

\* what the record must carry for property f of contact c: its text, or the
\* sentinel when the bag, the key or the value is missing
Normalised(c, f) ==
    IF c.properties = "object" /\ c.bag[f] = "text" THEN "text" ELSE "N/A"

\* C16 as stated: the record that fetch_customers produces for a contact
\* carries, for each of the five optional fields, the upstream value or "N/A":
\* a field whose key is absent, whose bag is absent or whose value is null is
\* never null in the record, nor in the row inserted from it.
C16_SentinelNormalisation ==
    /\ customer.status = "record" =>
          \A f \in FieldNames : customer.values[f] = Normalised(contact, f)
    /\ inserted.status = "row" =>
          \A f \in FieldNames : inserted.values[f] = Normalised(contact, f)

\* the part of C16 that the code keeps: a missing key or a missing bag gives
\* the sentinel, and the row carries what the record carries
C16_AbsentKeysNormalised ==
    /\ customer.status = "record" =>
          \A f \in FieldNames :
              (contact.properties = "absent" \/ contact.bag[f] = "absent")
                  => customer.values[f] = "N/A"
    /\ inserted.status = "row" => inserted.values = customer.values

----------------------------------------------------------------------------
(* Properties of the write dialogs (SpecWrites) *)

\* session p calls a write operation in this step
WriteStep(p) == result[p] = NoResult /\ result'[p] # NoResult

\* the mirror and the open transactions are as they were
MirrorKept ==
    /\ table' = table /\ tableExists' = tableExists
    /\ wrote' = wrote /\ mine' = mine

\* a step that changes the committed mirror is the commit of a pass, the new
\* rows are rows its INSERTs wrote, the missing rows are rows its DELETEs removed
OnlyThePassWrites ==
    table' # table =>
        \E p \in Procs :
            /\ pc[p] = "commit" /\ pc'[p] = "returned"
            /\ \A h \in Ids :
                  /\ (table[h] = <<>> /\ table'[h] # <<>>) => h \in okIns[p]
                  /\ (table[h] # <<>> /\ table'[h] = <<>>) => h \in okDel[p]
                  /\ (table[h] # <<>> /\ table'[h] # <<>>) => table'[h] = table[h]

\* C11: a call of add_customer, update_customer or delete_customer, whether it
\* succeeds or fails, leaves every mirror row as it was; rows appear only through
\* the INSERTs of a pass and disappear only through its DELETEs.
C11_WritesLeaveMirror ==
    [][(\A p \in Procs : WriteStep(p) => MirrorKept) /\ OnlyThePassWrites]_vars

\* a contact has just been erased in HubSpot and its mirror row is still there
C11_Witness ==
    /\ result[1].op = "delete" /\ result[1].ok
    /\ \E h \in DbIds(table) : h \notin Shown

\* the properties that a call of update_customer sets
Given(r) == {f \in FieldNames : r.args[f] # PyNone /\ r.args[f] # ""}

\* C12: update_customer with every field absent or empty returns the failure
\* value and sends no request; a request that is sent carries the fields that
\* were set, with their values, and there is at least one.
C12_UpdateValidation ==
    \A p \in Procs :
        result[p].op = "update" =>
            /\ Given(result[p]) = {} => ~result[p].sent /\ ~result[p].ok
            /\ result[p].sent =>
                  /\ Given(result[p]) # {}
                  /\ DOMAIN result[p].props = Given(result[p])
                  /\ \A f \in Given(result[p]) : result[p].props[f] = result[p].args[f]

\* an update with empty strings and None only has been turned down
C12_Witness ==
    /\ result[1].op = "update" /\ ~result[1].sent /\ ~result[1].ok
    /\ result[1].args["email"] = "" /\ result[1].args["phone"] = PyNone
    /\ Given(result[1]) = {}

----------------------------------------------------------------------------
(* Properties of two passes over one listing (SpecSame) *)

BothOver == \A p \in Procs : pc[p] \in {"returned", "raised"}

\* C19 as stated: when two passes over the same non-empty listing are both over,
\* each has returned with errors = 0 and the mirror's ids are the listing's ids.
C19_SameListingPasses ==
    (BothOver /\ df[1] = df[2] /\ NonEmpty(df[1])) =>
        /\ \A p \in Procs : pc[p] = "returned" /\ ret[p].errors = 0
        /\ DbIds(table) = R(1)

====
